---- MODULE Spec2Model ----
(***************************************************************************)
(* Model of terraform-provider-sealedsecret's git publication core:        *)
(*   internal/git    : NewGit, Push, GetFile, DeleteFile, createBranch      *)
(*   internal/gitlab : CreateMergeRequest, getProjectId                     *)
(*   internal/provider: fetchPublicKey, createSealedSecret (readiness poll),*)
(*                      configureProvider                                   *)
(* The go-git / go-billy / GitLab behaviour the code relies on is modelled  *)
(* by the operators named after the library calls (Clone, Checkout, Fetch,  *)
(* PushRefs, Truncate, WriteAt, ...).                                       *)
(***************************************************************************)
EXTENDS Integers, Sequences, FiniteSets, TLC

\* ------------------------------------------------------------------ bounds
NumProcs == 2
MaxOps == 2
MaxSeqOps == 3
MaxOpenOps == 2
NumSessions == 2
MaxSubmits == 2
MaxPollCalls == 3
MaxLockOps == 2
MaxStepOps == 2
MaxDivOps == 3
MaxCfgOps == 1
MaxResOps == 2
MaxSuccOps == 2

\* ---------------------------------------------------- source constants
\* the timeouts handed to resource.RetryContext, in minutes
FetchTimeout == 1
SealTimeout == 3

\* ------------------------------------------------------------- value sets
Procs == 1..NumProcs
Sessions == 1..NumSessions
Branches == {"main", "feature"}
DefaultBranch == "main"
Paths == {"a", "b"}
\* file contents are byte sequences of different lengths
Contents == {<<7>>, <<8, 9>>}

Absent == <<>>
File(c) == <<c>>
Exists(e) == e # Absent
Bytes(e) == e[1]
EmptyTree == [x \in Paths |-> Absent]
NoRefs == [b \in Branches |-> <<>>]
NoOp == [kind |-> "none", sess |-> 0, path |-> "", file |-> <<>>, conc |-> FALSE]
\* rsa public keys the resolver can answer with; NoKey is the nil *rsa.PublicKey
Keys == {"pk1", "pk2"}
NoKey == "nil"

\* errors are chains of messages: fmt.Errorf("...: %w", err) prepends one
Nil == <<>>
ErrNotExist == <<"file does not exist">>
ErrEntryNotFound == <<"entry not found">>
ErrTransport == <<"transport error">>
ErrAlreadyExists == <<"a branch named already exists">>
NoErrAlreadyUpToDate == <<"already up-to-date">>
ErrNonFastForward == <<"non-fast-forward update">>
ErrNotFound == <<"not found">>
ErrServiceUnavailable == <<"service unavailable">>
ErrForbidden == <<"forbidden">>
ErrTimeout == <<"timeout while waiting for state to become 'success'">>
ErrCanceled == <<"context canceled">>
Wrap(prefix, err) == <<prefix>> \o err
ErrorsIs(err, target) == err # Nil /\ \E i \in 1..Len(err) : SubSeq(err, i, Len(err)) = target

\* the poller before fetchPublicKey or createSealedSecret is called
NoPoll == [pc |-> "idle", site |-> "fetchPublicKey", now |-> 0, calls |-> <<>>,
           inflight |-> FALSE, cur |-> 0, resultErr |-> Nil, pk |-> NoKey,
           timedOut |-> FALSE, ctxDone |-> FALSE,
           ret |-> [pk |-> NoKey, err |-> Nil]]

\* the provider before configureProvider has run
NoRes == [stage |-> "unconfigured", isGitlab |-> FALSE, url |-> <<>>, kind |-> "none",
          path |-> "", file |-> <<>>, at |-> 0, id |-> "", diag |-> Nil, ops |-> 0]

VARIABLES
  remote,        \* refs/heads/* of the remote repository: branch -> history
  opened,        \* result of NewGit: "no" (not called), "ok", "clone failed", "branch failed"
  sourceBranch,  \* Git.sourceBranch
  targetBranch,  \* Git.targetBranch
  heads,         \* local refs/heads/* of Git.repo
  rrefs,         \* refs/remotes/origin/* of Git.repo
  head,          \* branch HEAD of Git.repo points to
  fs,            \* Git.fs, the in-memory working tree
  index,         \* staging index of Git.repo
  mu,            \* Git.mu: 0 = unlocked, else the proc holding it
  pc,            \* position of each caller inside its call
  op,            \* the call each caller is executing
  log,           \* calls in the order they returned
  started,       \* number of calls started
  mrs,           \* open merge requests on the hosting platform
  resp,          \* the platform's reply to each caller's create request
  poll,          \* one run of resource.RetryContext around the public key resolver
  trace,         \* the library calls each caller's current call has made, with their errors
  res            \* the provider's configuration and the resource operation it is running

gitVars == <<remote, opened, sourceBranch, targetBranch, heads, rrefs, head, fs, index, mu>>
mrVars == <<mrs, resp>>
vars == <<remote, opened, sourceBranch, targetBranch, heads, rrefs, head, fs, index, mu,
          pc, op, log, started, mrs, resp, poll, trace, res>>

\* ---------------------------------------------------------------- helpers
Last(h) == h[Len(h)]
Tree(h) == IF h = <<>> THEN EmptyTree ELSE Last(h).tree
IsPrefix(a, b) == Len(a) <= Len(b) /\ SubSeq(b, 1, Len(a)) = a

createCommitMsgCreated(action, filePath) ==
  <<"[SEALEDSECRET-PROVIDER]", "created", "-->", filePath>>
createCommitMsg(action, filePath) == <<"[SEALEDSECRET-PROVIDER]", action, "-->", filePath>>

RootCommit == [by |-> 0, msg |-> <<"initial">>, tree |-> EmptyTree]

\* ------------------------------------------------ go-billy memfs (Git.fs)
\* content.Truncate: OpenFile with O_TRUNC empties the shared content
TruncateKeeps(bytes) == bytes
Truncate(bytes) == <<>>

\* content.WriteAt: bytes before off are kept, p is placed at off, and when
\* the result is shorter than the previous content the old tail stays
WriteAt(bytes, p, off) ==
  LET written == SubSeq(bytes, 1, off) \o p
  IN IF Len(written) < Len(bytes)
       THEN written \o SubSeq(bytes, Len(written) + 1, Len(bytes))
       ELSE written

\* memfs.Create(path): O_RDWR|O_CREATE|O_TRUNC
FsCreate(tree, path) ==
  [tree EXCEPT ![path] = File(IF Exists(@) THEN Truncate(Bytes(@)) ELSE <<>>)]

\* File.Write at position 0 of the handle returned by Create
FsWrite(tree, path, file) ==
  [tree EXCEPT ![path] = File(WriteAt(Bytes(@), file, 0))]

\* ------------------------------------------------------- go-git worktree
\* Worktree.Add(path): the index entry takes the working-tree content
WorktreeAddOnly(idx, tree, path) == [x \in Paths |-> IF x = path THEN tree[x] ELSE Absent]
WorktreeAddNothing(idx, tree, path) == idx
WorktreeAdd(idx, tree, path) == [idx EXCEPT ![path] = tree[path]]

\* Worktree.Commit: the commit's tree is built from the index
CommitTree(idx) == idx
NewCommit(s, action, path, idx) ==
  [by |-> s, msg |-> createCommitMsg(action, path), tree |-> CommitTree(idx)]

\* Worktree.Commit creates the commit also when the index equals the tree of
\* the parent commit (TestGit_ConcurrentPush publishes one file five times)
CommitErrOnClean(idx, parentTree) ==
  IF idx = parentTree THEN <<"cannot create empty commit: clean working tree">> ELSE Nil
CommitErr(idx, parentTree) == Nil

\* Worktree.Remove(path): index.ErrEntryNotFound when path is not in the index
RemoveErrNever(idx, path) == Nil
RemoveErrAlways(idx, path) == ErrEntryNotFound
RemoveErr(idx, path) == IF Exists(idx[path]) THEN Nil ELSE ErrEntryNotFound
\* deleteFromIndex and deleteFromFilesystem of Worktree.Remove
DeleteFromIndex(idx, path) == [idx EXCEPT ![path] = Absent]
DeleteFromFilesystemKeeps(tree, path) == tree
DeleteFromFilesystem(tree, path) == [tree EXCEPT ![path] = Absent]

\* --------------------------------------------------------- go-git remote
\* isFastForward: the old remote commit is an ancestor of the new one
IsFastForwardAlways(old, new) == TRUE
IsFastForward(old, new) == IsPrefix(old, new)

\* Remote.Fetch with refspec +refs/heads/*:refs/remotes/origin/*
Fetch(rr, rem, fault) ==
  LET new == [b \in Branches |-> IF rem[b] # <<>> THEN rem[b] ELSE rr[b]]
  IN IF fault THEN [err |-> ErrTransport, rrefs |-> rr]
     ELSE IF new = rr THEN [err |-> NoErrAlreadyUpToDate, rrefs |-> rr]
     ELSE [err |-> Nil, rrefs |-> new]

\* Remote.Push with the default refspec refs/heads/*:refs/heads/*
PushCommands(hd, rem) == {b \in Branches : hd[b] # <<>> /\ hd[b] # rem[b]}
PushRefsKeepsDiverged(hd, rr, rem, force, fault) ==
  LET cmds == PushCommands(hd, rem)
      ok == {b \in cmds : IsFastForward(rem[b], hd[b])}
      same == [err |-> Nil, remote |-> rem, rrefs |-> rr]
  IN IF fault THEN [same EXCEPT !.err = ErrTransport]
     ELSE IF cmds = {} THEN [same EXCEPT !.err = NoErrAlreadyUpToDate]
     ELSE [err |-> Nil,
           remote |-> [b \in Branches |-> IF b \in ok THEN hd[b] ELSE rem[b]],
           rrefs |-> [b \in Branches |-> IF b \in ok THEN hd[b] ELSE rr[b]]]
PushRefsForced(hd, rr, rem, force, fault) ==
  LET cmds == PushCommands(hd, rem)
      same == [err |-> Nil, remote |-> rem, rrefs |-> rr]
  IN IF fault THEN [same EXCEPT !.err = ErrTransport]
     ELSE IF cmds = {} THEN [same EXCEPT !.err = NoErrAlreadyUpToDate]
     ELSE [err |-> Nil,
           remote |-> [b \in Branches |-> IF b \in cmds THEN hd[b] ELSE rem[b]],
           rrefs |-> [b \in Branches |-> IF b \in cmds THEN hd[b] ELSE rr[b]]]
PushRefs(hd, rr, rem, force, fault) ==
  LET cmds == PushCommands(hd, rem)
      same == [err |-> Nil, remote |-> rem, rrefs |-> rr]
  IN IF fault THEN [same EXCEPT !.err = ErrTransport]
     ELSE IF ~force /\ \E b \in cmds : rem[b] # <<>> /\ ~IsFastForward(rem[b], hd[b])
       THEN [same EXCEPT !.err = ErrNonFastForward]
     ELSE IF cmds = {} THEN [same EXCEPT !.err = NoErrAlreadyUpToDate]
     ELSE [err |-> Nil,
           remote |-> [b \in Branches |-> IF b \in cmds THEN hd[b] ELSE rem[b]],
           rrefs |-> [b \in Branches |-> IF b \in cmds THEN hd[b] ELSE rr[b]]]

\* git.Clone without ReferenceName: all branches become remote-tracking
\* refs, the default branch becomes the only local branch and is checked out
Clone(rem) ==
  [err |-> Nil,
   rrefs |-> rem,
   heads |-> [b \in Branches |-> IF b = DefaultBranch THEN rem[b] ELSE <<>>],
   head |-> DefaultBranch,
   tree |-> Tree(rem[DefaultBranch])]

\* Worktree.Checkout: with Create the branch must not exist locally and is
\* created at HEAD; then HEAD moves to the branch and the tree is reset to it
CheckoutNoMove(r, branch, create) ==
  IF create /\ r.heads[branch] # <<>> THEN [r EXCEPT !.err = ErrAlreadyExists]
  ELSE [r EXCEPT !.err = Nil,
                 !.heads = IF create THEN [r.heads EXCEPT ![branch] = r.heads[r.head]]
                           ELSE r.heads]
Checkout(r, branch, create) ==
  IF create /\ r.heads[branch] # <<>> THEN [r EXCEPT !.err = ErrAlreadyExists]
  ELSE IF ~create /\ r.heads[branch] = <<>> THEN [r EXCEPT !.err = <<"reference not found">>]
  ELSE LET hs == IF create THEN [r.heads EXCEPT ![branch] = r.heads[r.head]] ELSE r.heads
       IN [r EXCEPT !.err = Nil, !.heads = hs, !.head = branch, !.tree = Tree(hs[branch])]

\* the error text test of createBranch
IsAlreadyExistsNever(err) == FALSE
IsAlreadyExists(err) == err = ErrAlreadyExists

createBranch(r, branchName) ==
  LET first == Checkout(r, branchName, TRUE)
  IN IF first.err # Nil
       THEN IF IsAlreadyExists(first.err) THEN Checkout(r, branchName, FALSE) ELSE first
       ELSE first

\* ------------------------------------------------------------ initial state
Init ==
  /\ remote = [b \in Branches |-> IF b = DefaultBranch THEN <<RootCommit>> ELSE <<>>]
  /\ opened = [s \in Sessions |-> "no"]
  /\ sourceBranch = [s \in Sessions |-> DefaultBranch]
  /\ targetBranch = [s \in Sessions |-> DefaultBranch]
  /\ heads = [s \in Sessions |-> NoRefs]
  /\ rrefs = [s \in Sessions |-> NoRefs]
  /\ head = [s \in Sessions |-> DefaultBranch]
  /\ fs = [s \in Sessions |-> EmptyTree]
  /\ index = [s \in Sessions |-> EmptyTree]
  /\ mu = [s \in Sessions |-> 0]
  /\ pc = [p \in Procs |-> "idle"]
  /\ op = [p \in Procs |-> NoOp]
  /\ log = <<>>
  /\ started = 0
  /\ mrs = {}
  /\ resp = [p \in Procs |-> "none"]
  /\ poll = NoPoll
  /\ trace = [p \in Procs |-> <<>>]
  /\ res = NoRes

\* --------------------------------------------------------------- NewGit
\* clone, then createBranch(sourceBranch); on error no session is returned.
\* Sessions are numbered in the order NewGit is called.
NewGit(s, src, tgt) ==
  /\ opened[s] = "no"
  /\ \A t \in Sessions : t < s => opened[t] # "no"
  /\ \E fault \in BOOLEAN :
       LET r == createBranch(Clone(remote), src)
       IN IF fault \/ r.err # Nil
            THEN /\ opened' = [opened EXCEPT ![s] = IF fault THEN "clone failed"
                                                     ELSE "branch failed"]
                 /\ UNCHANGED <<sourceBranch, targetBranch, heads, rrefs, head, fs, index>>
            ELSE /\ opened' = [opened EXCEPT ![s] = "ok"]
                 /\ sourceBranch' = [sourceBranch EXCEPT ![s] = src]
                 /\ targetBranch' = [targetBranch EXCEPT ![s] = tgt]
                 /\ heads' = [heads EXCEPT ![s] = r.heads]
                 /\ rrefs' = [rrefs EXCEPT ![s] = r.rrefs]
                 /\ head' = [head EXCEPT ![s] = r.head]
                 /\ fs' = [fs EXCEPT ![s] = r.tree]
                 /\ index' = [index EXCEPT ![s] = r.tree]
  /\ UNCHANGED <<remote, mu, pc, op, log, started, mrs, resp, poll, trace, res>>

\* NewGit when wt.Checkout with Create fails for a reason other than an
\* existing branch: createBranch returns the error, NewGit returns no session
ErrCheckout == <<"worktree contains unstaged changes">>
createBranchFails(r, branchName) ==
  LET first == [r EXCEPT !.err = ErrCheckout]
  IN IF IsAlreadyExists(first.err) THEN Checkout(r, branchName, FALSE) ELSE first

NewGitCheckoutFails(s, src, tgt) ==
  /\ opened[s] = "no"
  /\ \A t \in Sessions : t < s => opened[t] # "no"
  /\ LET r == createBranchFails(Clone(remote), src)
     IN IF r.err # Nil
          THEN /\ opened' = [opened EXCEPT ![s] = "branch failed"]
               /\ UNCHANGED <<sourceBranch, targetBranch, heads, rrefs, head, fs, index>>
          ELSE /\ opened' = [opened EXCEPT ![s] = "ok"]
               /\ sourceBranch' = [sourceBranch EXCEPT ![s] = src]
               /\ targetBranch' = [targetBranch EXCEPT ![s] = tgt]
               /\ heads' = [heads EXCEPT ![s] = r.heads]
               /\ rrefs' = [rrefs EXCEPT ![s] = r.rrefs]
               /\ head' = [head EXCEPT ![s] = r.head]
               /\ fs' = [fs EXCEPT ![s] = r.tree]
               /\ index' = [index EXCEPT ![s] = r.tree]
  /\ UNCHANGED <<remote, mu, pc, op, log, started, mrs, resp, poll, trace, res>>

\* ------------------------------------------------- callers of the session
\* callers are numbered in the order of their first calls
FirstCallsInOrder(p) == \A q \in Procs : q < p => op[q].kind # "none"

\* a caller starts Push, DeleteFile or GetFile on an open session; conc
\* records that another caller was inside a mutating call at that moment
Call(p, s, kind, path, file, max) ==
  /\ pc[p] = "idle"
  /\ FirstCallsInOrder(p)
  /\ started < max
  /\ opened[s] = "ok"
  /\ op' = [op EXCEPT ![p] = [kind |-> kind, sess |-> s, path |-> path,
                               file |-> file, conc |-> mu[s] # 0]]
  /\ pc' = [pc EXCEPT ![p] = IF kind = "GetFile" THEN "open" ELSE "lock"]
  /\ started' = started + 1
  /\ trace' = [trace EXCEPT ![p] = <<>>]
  /\ UNCHANGED <<gitVars, log, mrVars, poll, res>>

\* the call returns err (and, for GetFile, the bytes read)
Return(p, err, bytes) ==
  /\ pc' = [pc EXCEPT ![p] = "idle"]
  /\ log' = Append(log, [kind |-> op[p].kind, sess |-> op[p].sess,
                          path |-> op[p].path, file |-> bytes, err |-> err,
                          conc |-> op[p].conc])
  /\ UNCHANGED <<op, started>>

\* the caller's current call has made the library call step, which returned err
Traced(p, step, err) ==
  trace' = [trace EXCEPT ![p] = Append(@, [step |-> step, err |-> err])]

\* sync.Mutex: Lock proceeds only when the mutex is free
CanLockAlways(m) == TRUE
CanLock(m) == m = 0

\* g.mu.Lock() at the top of Push and DeleteFile
Lock(p) ==
  /\ pc[p] = "lock"
  /\ CanLock(mu[op[p].sess])
  /\ mu' = [mu EXCEPT ![op[p].sess] = p]
  /\ pc' = [pc EXCEPT ![p] = IF op[p].kind = "Push" THEN "create" ELSE "remove"]
  /\ UNCHANGED <<remote, opened, sourceBranch, targetBranch, heads, rrefs, head, fs,
                 index, op, log, started, mrVars, poll, trace, res>>

\* defer g.mu.Unlock() together with the return
UnlockNever(p, err) ==
  /\ UNCHANGED mu
  /\ Return(p, err, op[p].file)
Unlock(p, err) ==
  /\ mu' = [mu EXCEPT ![op[p].sess] = 0]
  /\ Return(p, err, op[p].file)

\* ----------------------------------------------------------------- Push
PushCreate(p) ==
  /\ pc[p] = "create"
  /\ fs' = [fs EXCEPT ![op[p].sess] = FsCreate(@, op[p].path)]
  /\ Traced(p, "create", Nil)
  /\ pc' = [pc EXCEPT ![p] = "write"]
  /\ UNCHANGED <<remote, opened, sourceBranch, targetBranch, heads, rrefs, head,
                 index, mu, op, log, started, mrVars, poll, res>>

PushWrite(p) ==
  /\ pc[p] = "write"
  /\ fs' = [fs EXCEPT ![op[p].sess] = FsWrite(@, op[p].path, op[p].file)]
  /\ Traced(p, "write", Nil)
  /\ pc' = [pc EXCEPT ![p] = "add"]
  /\ UNCHANGED <<remote, opened, sourceBranch, targetBranch, heads, rrefs, head,
                 index, mu, op, log, started, mrVars, poll, res>>

PushAdd(p) ==
  /\ pc[p] = "add"
  /\ index' = [index EXCEPT ![op[p].sess] = WorktreeAdd(@, fs[op[p].sess], op[p].path)]
  /\ Traced(p, "add", Nil)
  /\ pc' = [pc EXCEPT ![p] = "commit"]
  /\ UNCHANGED <<remote, opened, sourceBranch, targetBranch, heads, rrefs, head,
                 fs, mu, op, log, started, mrVars, poll, res>>

\* w.Commit appends to the branch HEAD points to
DoCommitAmend(s, action, path) ==
  heads' = [heads EXCEPT ![s][head[s]] =
              SubSeq(@, 1, Len(@) - 1) \o <<NewCommit(s, action, path, index[s])>>]
DoCommitOnDefault(s, action, path) ==
  heads' = [heads EXCEPT ![s][DefaultBranch] = Append(@, NewCommit(s, action, path, index[s]))]
DoCommit(s, action, path) ==
  heads' = [heads EXCEPT ![s][head[s]] = Append(@, NewCommit(s, action, path, index[s]))]

PushCommit(p) ==
  /\ pc[p] = "commit"
  /\ LET s == op[p].sess
         err == CommitErr(index[s], Tree(heads[s][head[s]]))
     IN /\ Traced(p, "commit", err)
        /\ IF err # Nil
             THEN /\ Unlock(p, Wrap("unable to commit", err))
                  /\ UNCHANGED heads
             ELSE /\ DoCommit(s, "created", op[p].path)
                  /\ pc' = [pc EXCEPT ![p] = "fetch"]
                  /\ UNCHANGED <<mu, op, log, started>>
  /\ UNCHANGED <<remote, opened, sourceBranch, targetBranch, rrefs, head,
                 fs, index, mrVars, poll, res>>

\* the fetch error test shared by Push and DeleteFile
FetchFailedNever(err) == FALSE
FetchFailedButTransport(err) ==
  err # Nil /\ ~ErrorsIs(err, NoErrAlreadyUpToDate) /\ ~ErrorsIs(err, ErrTransport)
FetchFailedOnUpToDate(err) == err # Nil
FetchFailed(err) == err # Nil /\ ~ErrorsIs(err, NoErrAlreadyUpToDate)

PushFetch(p) ==
  /\ pc[p] = "fetch"
  /\ \E fault \in BOOLEAN :
       LET s == op[p].sess
           r == Fetch(rrefs[s], remote, fault)
       IN /\ Traced(p, "fetch", r.err)
          /\ rrefs' = [rrefs EXCEPT ![s] = r.rrefs]
          /\ IF FetchFailed(r.err)
               THEN Unlock(p, Wrap("unable to fetch", r.err))
               ELSE /\ pc' = [pc EXCEPT ![p] = "push"]
                    /\ UNCHANGED <<mu, op, log, started>>
  /\ UNCHANGED <<remote, opened, sourceBranch, targetBranch, heads, head, fs, index, mrVars, poll, res>>

PushPush(p) ==
  /\ pc[p] = "push"
  /\ \E fault \in BOOLEAN :
       LET s == op[p].sess
           r == PushRefs(heads[s], rrefs[s], remote, TRUE, fault)
       IN /\ Traced(p, "push", r.err)
          /\ remote' = r.remote
          /\ rrefs' = [rrefs EXCEPT ![s] = r.rrefs]
          /\ Unlock(p, IF r.err # Nil THEN Wrap("unable to push", r.err) ELSE Nil)
  /\ UNCHANGED <<opened, sourceBranch, targetBranch, heads, head, fs, index, mrVars, poll, res>>

\* the messages Push wraps the error of each of its library calls in
StepMsg(step) ==
  IF step = "create" THEN "unable to create file"
  ELSE IF step = "write" THEN "unable to write to file"
  ELSE IF step = "add" THEN "unable to add"
  ELSE IF step = "commit" THEN "unable to commit"
  ELSE IF step = "fetch" THEN "unable to fetch"
  ELSE "unable to push"

\* fs.Create, file.Write, w.Add or w.Commit returns an error: Push returns it
\* wrapped and does nothing else
ErrLocal == <<"input/output error">>
PushStepFails(p) ==
  /\ pc[p] \in {"create", "write", "add", "commit"}
  /\ Traced(p, pc[p], ErrLocal)
  /\ Unlock(p, Wrap(StepMsg(pc[p]), ErrLocal))
  /\ UNCHANGED <<remote, opened, sourceBranch, targetBranch, heads, rrefs, head,
                 fs, index, mrVars, poll, res>>

\* -------------------------------------------------------------- GetFile
\* g.fs.Open: os.ErrNotExist when the path is absent
GetFileOpen(p) ==
  /\ pc[p] = "open"
  /\ IF Exists(fs[op[p].sess][op[p].path])
       THEN /\ pc' = [pc EXCEPT ![p] = "readall"]
            /\ op' = [op EXCEPT ![p].file = Bytes(fs[op[p].sess][op[p].path])]
            /\ UNCHANGED <<log, started>>
       ELSE Return(p, ErrNotExist, <<>>)
  /\ UNCHANGED <<gitVars, mrVars, poll, trace, res>>

\* io.ReadAll on the handle: the file's content at the time of the read
GetFileReadAll(p) ==
  /\ pc[p] = "readall"
  /\ LET e == fs[op[p].sess][op[p].path]
     IN Return(p, Nil, IF Exists(e) THEN Bytes(e) ELSE op[p].file)
  /\ UNCHANGED <<gitVars, mrVars, poll, trace, res>>

\* ----------------------------------------------------------- DeleteFile
DeleteRemove(p) ==
  /\ pc[p] = "remove"
  /\ LET s == op[p].sess
         err == RemoveErr(index[s], op[p].path)
     IN /\ Traced(p, "remove", err)
        /\ IF err # Nil
             THEN /\ Unlock(p, IF ErrorsIs(err, ErrEntryNotFound) THEN ErrNotExist ELSE err)
                  /\ UNCHANGED <<fs, index>>
             ELSE /\ index' = [index EXCEPT ![s] = DeleteFromIndex(@, op[p].path)]
                  /\ fs' = [fs EXCEPT ![s] = DeleteFromFilesystem(@, op[p].path)]
                  /\ pc' = [pc EXCEPT ![p] = "dcommit"]
                  /\ UNCHANGED <<mu, op, log, started>>
  /\ UNCHANGED <<remote, opened, sourceBranch, targetBranch, heads, rrefs, head, mrVars, poll, res>>

DeleteCommit(p) ==
  /\ pc[p] = "dcommit"
  /\ LET s == op[p].sess
         err == CommitErr(index[s], Tree(heads[s][head[s]]))
     IN /\ Traced(p, "commit", err)
        /\ IF err # Nil
             THEN /\ Unlock(p, err)
                  /\ UNCHANGED heads
             ELSE /\ DoCommit(s, "deleted", op[p].path)
                  /\ pc' = [pc EXCEPT ![p] = "dpush"]
                  /\ UNCHANGED <<mu, op, log, started>>
  /\ UNCHANGED <<remote, opened, sourceBranch, targetBranch, rrefs, head,
                 fs, index, mrVars, poll, res>>

DeletePush(p) ==
  /\ pc[p] = "dpush"
  /\ \E fault \in BOOLEAN :
       LET s == op[p].sess
           r == PushRefs(heads[s], rrefs[s], remote, FALSE, fault)
       IN /\ Traced(p, "push", r.err)
          /\ remote' = r.remote
          /\ rrefs' = [rrefs EXCEPT ![s] = r.rrefs]
          /\ IF r.err # Nil
               THEN Unlock(p, r.err)
               ELSE /\ pc' = [pc EXCEPT ![p] = "dfetch"]
                    /\ UNCHANGED <<mu, op, log, started>>
  /\ UNCHANGED <<opened, sourceBranch, targetBranch, heads, head, fs, index, mrVars, poll, res>>

DeleteFetch(p) ==
  /\ pc[p] = "dfetch"
  /\ \E fault \in BOOLEAN :
       LET s == op[p].sess
           r == Fetch(rrefs[s], remote, fault)
       IN /\ Traced(p, "fetch", r.err)
          /\ rrefs' = [rrefs EXCEPT ![s] = r.rrefs]
          /\ Unlock(p, IF FetchFailed(r.err) THEN r.err ELSE Nil)
  /\ UNCHANGED <<remote, opened, sourceBranch, targetBranch, heads, head, fs, index, mrVars, poll, res>>

\* ----------------------------------------- gitlab.CreateMergeRequest
\* URLs are kept split at "/" as strings.Split does
Projects == {[id |-> 1, webURL |-> <<"gitlab", "grp", "repo">>],
             [id |-> 2, webURL |-> <<"gitlab", "other", "repo">>],
             [id |-> 3, webURL |-> <<"gitlab", "grp", "infra">>]}
Urls == {<<"gitlab", "grp", "repo">>, <<"gitlab", "nobody", "repo">>}

AlreadyExistsPhrase == "Another open merge request already exists for this source branch"
\* gl.ErrorResponse.Message of each platform reply, as a list of fragments
ReplyMessage(reply) ==
  IF reply = "conflict" THEN <<"409", AlreadyExistsPhrase, "!1">>
  ELSE <<"422", "You can't use same project/branch for source and target">>

\* strings.Contains(errResp.Message, phrase)
Contains(msg, phrase) == \E i \in 1..Len(msg) : msg[i] = phrase

\* createListProjectsOptions: Search is the last segment of the URL
createListProjectsOptions(url) == [membership |-> TRUE, search |-> url[Len(url)]]

\* Projects.ListProjects: the platform returns the projects the search hits
ListProjects(opts) == {pr \in Projects : pr.webURL[Len(pr.webURL)] = opts.search}

\* getProjectId: the listed project whose WebURL equals url, 0 and an error
\* when there is none
ProjectMatchesSearchHit(pr, url) == TRUE
ProjectMatches(pr, url) == pr.webURL = url
getProjectId(url, fault) ==
  LET hits == {pr \in ListProjects(createListProjectsOptions(url)) : ProjectMatches(pr, url)}
  IN IF fault THEN [id |-> 0, err |-> Wrap("unable to get projects", ErrTransport)]
     ELSE IF hits = {} THEN [id |-> 0, err |-> <<"unable to find any project for url">>]
     ELSE [id |-> (CHOOSE pr \in hits : TRUE).id, err |-> Nil]

\* the platform's answer to POST merge_requests: 409 when an open request
\* for the same source and target exists, 422 for source = target, else the
\* request is opened; "transport" is a failure without an error response
PlatformReplies(pid, src, tgt) ==
  {"transport"} \cup
  (IF \E m \in mrs : m.pid = pid /\ m.source = src /\ m.target = tgt THEN {"conflict"}
   ELSE IF src = tgt THEN {"invalid"}
   ELSE {"created"})

\* the handling of the create call's error in CreateMergeRequest
Panic == <<"panic: nil pointer dereference">>
IsIdempotentReplyNever(msg) == FALSE
IsIdempotentReply(msg) == Contains(msg, AlreadyExistsPhrase)
CreateResult(reply) ==
  IF reply = "created" THEN Nil
  ELSE IF reply = "transport" THEN Panic
  ELSE IF IsIdempotentReply(ReplyMessage(reply)) THEN Nil
  ELSE Wrap("unable to create merge request", <<reply>>)

SubmitCall(p, url, src, tgt) ==
  /\ pc[p] = "idle"
  /\ FirstCallsInOrder(p)
  /\ started < MaxSubmits
  /\ op' = [op EXCEPT ![p] = [kind |-> "CreateMergeRequest", sess |-> 0, path |-> url,
                               file |-> <<src, tgt>>, conc |-> FALSE]]
  /\ pc' = [pc EXCEPT ![p] = "project"]
  /\ resp' = [resp EXCEPT ![p] = "none"]
  /\ started' = started + 1
  /\ UNCHANGED <<gitVars, log, mrs, poll, trace, res>>

SubmitProject(p) ==
  /\ pc[p] = "project"
  /\ \E fault \in BOOLEAN :
       LET r == getProjectId(op[p].path, fault)
       IN IF r.err # Nil
            THEN Return(p, r.err, op[p].file)
            ELSE /\ pc' = [pc EXCEPT ![p] = "create_mr"]
                 /\ UNCHANGED <<op, log, started>>
  /\ UNCHANGED <<gitVars, mrVars, poll, trace, res>>

SubmitCreate(p) ==
  /\ pc[p] = "create_mr"
  /\ LET pid == getProjectId(op[p].path, FALSE).id
         src == op[p].file[1]
         tgt == op[p].file[2]
     IN \E reply \in PlatformReplies(pid, src, tgt) :
          /\ resp' = [resp EXCEPT ![p] = reply]
          /\ mrs' = IF reply = "created"
                      THEN mrs \cup {[iid |-> Cardinality(mrs) + 1, pid |-> pid,
                                       source |-> src, target |-> tgt]}
                      ELSE mrs
          /\ Return(p, CreateResult(reply), op[p].file)
  /\ UNCHANGED <<gitVars, poll, trace, res>>

\* ------------------------------------- fetchPublicKey / createSealedSecret
\* resource.RetryContext(ctx, timeout, f) around the public key resolver.
\* Time is counted in minutes; the waits between attempts and the refresh
\* grace period are shorter than a minute
PollSites == {"fetchPublicKey", "createSealedSecret"}
Timeout(site) == IF site = "fetchPublicKey" THEN FetchTimeout ELSE SealTimeout
MaxClock == SealTimeout

\* what one call of the resolver can answer: a key, or one of the errors
ResolverOutcomes ==
  [key : Keys, err : {Nil}] \cup
  [key : {NoKey}, err : {ErrNotFound, ErrServiceUnavailable, ErrForbidden}]

\* k8sErrors.IsNotFound(err) || k8sErrors.IsServiceUnavailable(err)
IsRetryableAlways(err) == TRUE
IsRetryableNever(err) == FALSE
IsRetryable(err) == err = ErrNotFound \/ err = ErrServiceUnavailable

\* the closure handed to RetryContext: nil, RetryableError or NonRetryableError
RetryFunc(out) ==
  IF out.err = Nil THEN [err |-> Nil, retryable |-> FALSE]
  ELSE IF IsRetryable(out.err)
    THEN [err |-> Wrap("waiting for sealed-secret-controller to be deployed", out.err),
          retryable |-> TRUE]
  ELSE [err |-> out.err, retryable |-> FALSE]

\* RetryContext's return value: resultErr takes precedence over the wait error
RetryResult(waitErr, resultErr) == IF resultErr = Nil THEN waitErr ELSE resultErr

\* fetchPublicKey's return: (nil, err) on error, (pk, nil) otherwise
PollReturn(pk, err) ==
  IF err # Nil THEN [pk |-> NoKey, err |-> err] ELSE [pk |-> pk, err |-> Nil]

PollFrame == UNCHANGED <<gitVars, pc, op, log, started, mrVars, trace, res>>

\* the provider calls fetchPublicKey or createSealedSecret
PollStart(site) ==
  /\ poll.pc = "idle"
  /\ poll' = [poll EXCEPT !.pc = "wait", !.site = site]
  /\ PollFrame

\* the refresh loop leaves its wait and calls the resolver
PollRefresh ==
  /\ poll.pc = "wait"
  /\ ~poll.timedOut
  /\ Len(poll.calls) < MaxPollCalls
  /\ poll' = [poll EXCEPT !.pc = "resolving", !.inflight = TRUE, !.cur = poll.now]
  /\ PollFrame

\* the resolver answers; success and a non-retryable error end the loop
PollResolved(out) ==
  /\ poll.pc = "resolving"
  /\ LET r == RetryFunc(out)
         done == ~r.retryable
     IN poll' = [poll EXCEPT
                   !.calls = Append(@, [key |-> out.key, err |-> out.err, at |-> poll.cur]),
                   !.inflight = FALSE,
                   !.pk = out.key,
                   !.resultErr = r.err,
                   !.pc = IF done THEN "returned" ELSE "wait",
                   !.ret = IF done THEN PollReturn(out.key, RetryResult(Nil, r.err)) ELSE @]
  /\ PollFrame

\* a minute passes; the timeout timer fires before time moves past it
Tick ==
  /\ poll.pc \in {"wait", "resolving"}
  /\ poll.now < MaxClock
  /\ poll.timedOut \/ poll.now < Timeout(poll.site)
  /\ poll' = [poll EXCEPT !.now = @ + 1]
  /\ PollFrame

\* WaitForStateContext sees the timeout: the loop is cancelled, the grace
\* period starts
PollTimeout ==
  /\ poll.pc \in {"wait", "resolving"}
  /\ ~poll.timedOut
  /\ poll.now >= Timeout(poll.site)
  /\ poll' = [poll EXCEPT !.timedOut = TRUE]
  /\ PollFrame

\* the cancelled loop ends between two attempts: TimeoutError
PollGiveUp ==
  /\ poll.pc = "wait"
  /\ poll.timedOut
  /\ poll' = [poll EXCEPT !.pc = "returned",
                !.ret = PollReturn(poll.pk, RetryResult(ErrTimeout, poll.resultErr))]
  /\ PollFrame

\* the grace period ends while the resolver has not answered: TimeoutError,
\* the call in flight is abandoned
PollGraceExpired ==
  /\ poll.pc = "resolving"
  /\ poll.timedOut
  /\ poll' = [poll EXCEPT !.pc = "returned",
                !.ret = PollReturn(poll.pk, RetryResult(ErrTimeout, poll.resultErr))]
  /\ PollFrame

\* the caller's context is cancelled while RetryContext waits
PollCtxDone ==
  /\ poll.pc \in {"wait", "resolving"}
  /\ poll' = [poll EXCEPT !.pc = "returned", !.ctxDone = TRUE,
                !.ret = PollReturn(poll.pk, RetryResult(ErrCanceled, poll.resultErr))]
  /\ PollFrame

\* ------------------------------------------------------- specifications
PushSteps(p) ==
  \/ Lock(p)
  \/ PushCreate(p)
  \/ PushWrite(p)
  \/ PushAdd(p)
  \/ PushCommit(p)
  \/ PushFetch(p)
  \/ PushPush(p)

Step(p) ==
  \/ PushSteps(p)
  \/ GetFileOpen(p)
  \/ GetFileReadAll(p)
  \/ DeleteRemove(p)
  \/ DeleteCommit(p)
  \/ DeletePush(p)
  \/ DeleteFetch(p)

\* one session shared by concurrent callers
Next ==
  \/ \E src \in Branches : NewGit(1, src, DefaultBranch)
  \/ \E p \in Procs, path \in Paths, file \in Contents :
        Call(p, 1, "Push", path, file, MaxOps)
  \/ \E p \in Procs, path \in Paths : Call(p, 1, "DeleteFile", path, <<>>, MaxOps)
  \/ \E p \in Procs, path \in Paths : Call(p, 1, "GetFile", path, <<>>, MaxOps)
  \/ \E p \in Procs : Step(p)

Spec == Init /\ [][Next]_vars

\* one session used by one caller, call after call
NextSeq ==
  \/ \E src \in Branches : NewGit(1, src, DefaultBranch)
  \/ \E path \in Paths, file \in Contents : Call(1, 1, "Push", path, file, MaxSeqOps)
  \/ \E path \in Paths : Call(1, 1, "DeleteFile", path, <<>>, MaxSeqOps)
  \/ \E path \in Paths : Call(1, 1, "GetFile", path, <<>>, MaxSeqOps)
  \/ Step(1)

SpecSeq == Init /\ [][NextSeq]_vars

\* callers contending for the mutex of one session under the Go scheduler:
\* a caller inside a call keeps running, and a caller waiting in
\* g.mu.Lock() gets the mutex once it is free often enough (sync.Mutex
\* hands over to starving waiters)
LockSteps(p) ==
  \/ PushSteps(p)
  \/ DeleteRemove(p)
  \/ DeleteCommit(p)
  \/ DeletePush(p)
  \/ DeleteFetch(p)

NextLock ==
  \/ NewGit(1, DefaultBranch, DefaultBranch)
  \/ \E p \in Procs : Call(p, 1, "Push", "a", <<7>>, MaxLockOps)
  \/ \E p \in Procs : Call(p, 1, "DeleteFile", "a", <<>>, MaxLockOps)
  \/ \E p \in Procs : LockSteps(p)

SpecLock ==
  /\ Init /\ [][NextLock]_vars
  /\ \A p \in Procs : WF_vars(LockSteps(p)) /\ SF_vars(Lock(p))

\* one caller publishing through a session whose file system, index and
\* remote can fail at every step
NextSteps ==
  \/ \E src \in Branches : NewGit(1, src, DefaultBranch)
  \/ \E path \in Paths, file \in Contents : Call(1, 1, "Push", path, file, MaxStepOps)
  \/ PushSteps(1)
  \/ PushStepFails(1)

SpecSteps == Init /\ [][NextSteps]_vars

\* several sessions opened one after the other against the same remote, each
\* used to publish
NextOpen ==
  \/ \E s \in Sessions, src \in Branches : NewGit(s, src, DefaultBranch)
  \/ \E s \in Sessions, path \in Paths : Call(1, s, "Push", path, <<7>>, MaxOpenOps)
  \/ PushSteps(1)

SpecOpen == Init /\ [][NextOpen]_vars

\* several sessions on the default branch, used in turn by one caller to
\* publish and delete: each session's view of the remote can fall behind
NextDiv ==
  \/ \E s \in Sessions : NewGit(s, DefaultBranch, DefaultBranch)
  \/ \E s \in Sessions : Call(1, s, "Push", "a", <<7>>, MaxDivOps)
  \/ \E s \in Sessions : Call(1, s, "DeleteFile", "a", <<>>, MaxDivOps)
  \/ LockSteps(1)

SpecDiv == Init /\ [][NextDiv]_vars

\* configureProvider: NewGit with every way it can fail, then publishing
\* through the sessions it returned
NextCfg ==
  \/ \E s \in Sessions, src \in Branches, tgt \in Branches : NewGit(s, src, tgt)
  \/ \E s \in Sessions, src \in Branches, tgt \in Branches : NewGitCheckoutFails(s, src, tgt)
  \/ \E s \in Sessions : Call(1, s, "Push", "a", <<7>>, MaxCfgOps)
  \/ PushSteps(1)

SpecCfg == Init /\ [][NextCfg]_vars

\* concurrent callers of gitlab.CreateMergeRequest
NextMR ==
  \/ \E p \in Procs, url \in Urls, src \in Branches, tgt \in Branches :
        SubmitCall(p, url, src, tgt)
  \/ \E p \in Procs : SubmitProject(p)
  \/ \E p \in Procs : SubmitCreate(p)

SpecMR == Init /\ [][NextMR]_vars

\* one run of the readiness poll
NextPoll ==
  \/ \E site \in PollSites : PollStart(site)
  \/ PollRefresh
  \/ \E out \in ResolverOutcomes : PollResolved(out)
  \/ Tick
  \/ PollTimeout
  \/ PollGiveUp
  \/ PollGraceExpired
  \/ PollCtxDone

SpecPoll == Init /\ [][NextPoll]_vars

\* time passes and the timers of WaitForStateContext fire; nothing is assumed
\* about the resolver answering or the caller starting a poll
SpecPollLive ==
  /\ SpecPoll
  /\ WF_vars(Tick)
  /\ WF_vars(PollTimeout)
  /\ WF_vars(PollGiveUp)
  /\ WF_vars(PollGraceExpired)


\* ------------------------------------------------- vocabulary of the claims
\* positions of a caller between g.mu.Lock() and the return of Push/DeleteFile
MutSteps == {"create", "write", "add", "commit", "fetch", "push",
             "remove", "dcommit", "dpush", "dfetch"}
InFlight(p) == pc[p] \in MutSteps
IsMutation(e) == e.kind \in {"Push", "DeleteFile"}
\* errors of Push that come from a failed fetch or push transport only
TransportOnly(err) ==
  err \in {Nil, Wrap("unable to fetch", ErrTransport), Wrap("unable to push", ErrTransport)}
\* the working tree of an independent clone of the session's source branch
cloneBranch(s) == Tree(remote[sourceBranch[s]])
\* what g.GetFile(path) returns in the current state
GetFile(s, path) ==
  IF Exists(fs[s][path]) THEN [err |-> Nil, bytes |-> Bytes(fs[s][path])]
  ELSE [err |-> ErrNotExist, bytes |-> <<>>]
\* no mutating call on session s and path x returned after log position i
NoLaterMutation(s, x, i) ==
  \A k \in (i + 1)..Len(log) : ~(IsMutation(log[k]) /\ log[k].sess = s /\ log[k].path = x)
\* no mutating call on session s and path x returned between positions i and j
NoMutationBetween(s, x, i, j) ==
  \A k \in (i + 1)..(j - 1) : ~(IsMutation(log[k]) /\ log[k].sess = s /\ log[k].path = x)
Quiet(s) == mu[s] = 0 /\ \A p \in Procs : op[p].sess = s => ~InFlight(p)

\* C1: on one session at most one caller is between taking the lock and the
\* return of Push/DeleteFile, and that caller holds the session lock, so the
\* steps of two mutating calls never interleave
C1_MutualExclusion ==
  /\ \A p \in Procs : InFlight(p) => mu[op[p].sess] = p
  /\ \A p, q \in Procs :
        (InFlight(p) /\ InFlight(q) /\ op[p].sess = op[q].sess) => p = q
\* one caller is at its remote step while another waits for the lock
C1_Witness ==
  \E p, q \in Procs : p # q /\ pc[p] \in {"push", "dfetch"} /\ pc[q] = "lock"
                        /\ op[p].sess = op[q].sess

\* C2: Push calls of concurrent callers on distinct paths fail only by a
\* transport fault, and once all have returned without error the remote
\* source branch holds every path with the content its caller published
C2_ConcurrentDistinctPaths ==
  /\ \A i \in 1..Len(log) : log[i].kind = "Push" => TransportOnly(log[i].err)
  /\ (/\ Quiet(1)
      /\ \A i \in 1..Len(log) : IsMutation(log[i]) => (log[i].kind = "Push" /\ log[i].err = Nil)
      /\ \A i, j \in 1..Len(log) :
            (i # j /\ IsMutation(log[i]) /\ IsMutation(log[j])) => log[i].path # log[j].path)
     => \A i \in 1..Len(log) :
          IsMutation(log[i]) => cloneBranch(1)[log[i].path] = File(log[i].file)
\* two overlapping Push calls on different paths have both returned nil
C2_Witness ==
  /\ Quiet(1)
  /\ \E i, j \in 1..Len(log) :
        /\ i < j /\ log[i].kind = "Push" /\ log[j].kind = "Push"
        /\ log[i].err = Nil /\ log[j].err = Nil
        /\ log[i].path # log[j].path /\ log[j].conc

\* C3: a Push that repeats the path and content of the previous Push fails
\* only by a transport fault, and once one Push(x, c) returned nil the remote
\* source branch holds c at x for as long as every other mutating call on x,
\* returned or in flight, is the same Push(x, c)
C3_SamePathSameContent ==
  /\ \A i, j \in 1..Len(log) :
        (/\ i < j /\ log[i].kind = "Push" /\ log[j].kind = "Push"
         /\ log[i].path = log[j].path /\ log[i].file = log[j].file
         /\ NoMutationBetween(1, log[i].path, i, j))
        => TransportOnly(log[j].err)
  /\ \A i \in 1..Len(log) :
        (/\ log[i].kind = "Push" /\ log[i].err = Nil
         /\ \A k \in (i + 1)..Len(log) :
               (IsMutation(log[k]) /\ log[k].path = log[i].path)
               => (log[k].kind = "Push" /\ log[k].file = log[i].file)
         /\ \A p \in Procs :
               (InFlight(p) /\ op[p].path = log[i].path)
               => (op[p].kind = "Push" /\ op[p].file = log[i].file))
        => cloneBranch(1)[log[i].path] = File(log[i].file)
\* two overlapping Push calls with one path and one content returned nil
C3_Witness ==
  \E i, j \in 1..Len(log) :
    /\ i < j /\ log[i].kind = "Push" /\ log[j].kind = "Push"
    /\ log[i].path = log[j].path /\ log[i].file = log[j].file
    /\ log[i].err = Nil /\ log[j].err = Nil /\ log[j].conc


\* C4: after Push(x, c1) and then Push(x, c2) on one session, with no later
\* mutation of x, GetFile(x) returns exactly c2, also when c2 is shorter
\* than c1; a GetFile call that returned after the second Push read c2
C4_Overwrite ==
  \A i, j \in 1..Len(log) :
    (/\ i < j /\ log[i].kind = "Push" /\ log[j].kind = "Push"
     /\ log[i].sess = 1 /\ log[j].sess = 1
     /\ log[i].path = log[j].path /\ log[i].err = Nil /\ log[j].err = Nil)
    => /\ (Quiet(1) /\ NoLaterMutation(1, log[j].path, j))
          => GetFile(1, log[j].path) = [err |-> Nil, bytes |-> log[j].file]
       /\ \A k \in (j + 1)..Len(log) :
            (/\ log[k].kind = "GetFile" /\ log[k].path = log[j].path
             /\ NoMutationBetween(1, log[j].path, j, k))
            => (log[k].err = Nil /\ log[k].file = log[j].file)
\* a longer content was overwritten by a shorter one and then read back
C4_Witness ==
  /\ Len(log) = 3
  /\ log[1].kind = "Push" /\ log[2].kind = "Push" /\ log[3].kind = "GetFile"
  /\ log[1].path = log[2].path /\ log[3].path = log[2].path
  /\ log[1].err = Nil /\ log[2].err = Nil /\ log[3].err = Nil
  /\ Len(log[2].file) < Len(log[1].file)
  /\ log[3].file = log[2].file

\* C5: when the last mutating call on path x was a Push(x, c) that returned
\* nil, GetFile(x) on the session returns exactly c and an independent clone
\* of the source branch holds exactly c at x
C5_RoundTrip ==
  \A i \in 1..Len(log) :
    (/\ log[i].kind = "Push" /\ log[i].sess = 1 /\ log[i].err = Nil
     /\ NoLaterMutation(1, log[i].path, i) /\ Quiet(1))
    => /\ GetFile(1, log[i].path) = [err |-> Nil, bytes |-> log[i].file]
       /\ cloneBranch(1)[log[i].path] = File(log[i].file)
\* a Push returned nil after an earlier call left a local-only commit
C5_Witness ==
  /\ Quiet(1)
  /\ Len(log) >= 2
  /\ log[Len(log)].kind = "Push" /\ log[Len(log)].err = Nil
  /\ \E i \in 1..(Len(log) - 1) :
        /\ log[i].kind = "Push" /\ log[i].err = Wrap("unable to push", ErrTransport)
        /\ log[i].path # log[Len(log)].path

\* C6: DeleteFile of a path that is neither in the index nor in the working
\* tree returns os.ErrNotExist, releases the lock and changes neither the
\* working tree, the index, the local history nor the remote; GetFile of such
\* a path returns os.ErrNotExist
C6_NotFound ==
  [][\A p \in Procs :
       /\ (/\ pc[p] = "remove"
           /\ ~Exists(index[op[p].sess][op[p].path])
           /\ ~Exists(fs[op[p].sess][op[p].path])
           /\ pc'[p] # "remove")
          => /\ Len(log') = Len(log) + 1
             /\ ErrorsIs(log'[Len(log')].err, ErrNotExist)
             /\ log'[Len(log')].kind = "DeleteFile"
             /\ mu'[op[p].sess] = 0
             /\ UNCHANGED <<fs, index, heads, rrefs, remote>>
       /\ (/\ pc[p] = "open"
           /\ ~Exists(index[op[p].sess][op[p].path])
           /\ ~Exists(fs[op[p].sess][op[p].path])
           /\ pc'[p] # "open")
          => /\ Len(log') = Len(log) + 1
             /\ ErrorsIs(log'[Len(log')].err, ErrNotExist)
             /\ UNCHANGED <<fs, index, heads, rrefs, remote>>]_vars
\* both calls on a path that was never published have returned not-found
C6_Witness ==
  /\ Len(log) = 2
  /\ log[1].kind = "DeleteFile" /\ log[2].kind = "GetFile"
  /\ log[1].path = log[2].path
  /\ ErrorsIs(log[1].err, ErrNotExist) /\ ErrorsIs(log[2].err, ErrNotExist)
  /\ heads[1][head[1]] = <<RootCommit>>

\* C7: when the last mutating call on path x was a DeleteFile(x) that
\* returned nil, after a Push(x, c) that returned nil, x is absent from the
\* working tree (GetFile fails with not-found) and from an independent clone
C7_DeleteRemoves ==
  \A i, j \in 1..Len(log) :
    (/\ i < j /\ log[i].kind = "Push" /\ log[j].kind = "DeleteFile"
     /\ log[i].sess = 1 /\ log[j].sess = 1
     /\ log[i].path = log[j].path /\ log[i].err = Nil /\ log[j].err = Nil
     /\ NoLaterMutation(1, log[j].path, j) /\ Quiet(1))
    => /\ ErrorsIs(GetFile(1, log[j].path).err, ErrNotExist)
       /\ ~Exists(cloneBranch(1)[log[j].path])
\* a published path was deleted and both calls returned nil
C7_Witness ==
  /\ Quiet(1)
  /\ Len(log) = 2
  /\ log[1].kind = "Push" /\ log[2].kind = "DeleteFile"
  /\ log[1].path = log[2].path /\ log[1].err = Nil /\ log[2].err = Nil

\* C8: in Push(x, c1); DeleteFile(x); Push(x, c2) on one session the
\* DeleteFile does not fail with not-found, each call fails only by a
\* transport fault, and when all three returned nil GetFile(x) returns c2
C8_ReusePath ==
  \A i, j \in 1..Len(log) :
    (/\ i < j /\ log[i].kind = "Push" /\ log[j].kind = "DeleteFile"
     /\ log[i].sess = 1 /\ log[j].sess = 1
     /\ log[i].path = log[j].path /\ log[i].err = Nil
     /\ NoMutationBetween(1, log[i].path, i, j))
    => /\ log[j].err \in {Nil, ErrTransport}
       /\ \A k \in (j + 1)..Len(log) :
            (/\ log[k].kind = "Push" /\ log[k].path = log[j].path
             /\ log[j].err = Nil /\ NoMutationBetween(1, log[j].path, j, k))
            => /\ TransportOnly(log[k].err)
               /\ (log[k].err = Nil /\ NoLaterMutation(1, log[k].path, k) /\ Quiet(1))
                  => GetFile(1, log[k].path) = [err |-> Nil, bytes |-> log[k].file]
\* publish, delete and publish again of one path all returned nil
C8_Witness ==
  /\ Quiet(1)
  /\ Len(log) = 3
  /\ log[1].kind = "Push" /\ log[2].kind = "DeleteFile" /\ log[3].kind = "Push"
  /\ log[1].path = log[2].path /\ log[2].path = log[3].path
  /\ log[1].err = Nil /\ log[2].err = Nil /\ log[3].err = Nil
  /\ log[1].file # log[3].file
  /\ GetFile(1, log[3].path).bytes = log[3].file

\* C9: NewGit never fails at branch materialization, whether the source
\* branch is the default branch, exists only on the remote or does not exist;
\* a session it returns has the source branch checked out, and every Push
\* on any of the sessions opened on one branch fails only by a transport fault
C9_OpenIdempotent ==
  /\ \A s \in Sessions : opened[s] # "branch failed"
  /\ \A s \in Sessions :
        opened[s] = "ok" => (head[s] = sourceBranch[s] /\ heads[s][head[s]] # <<>>)
  /\ \A i \in 1..Len(log) : log[i].kind = "Push" => TransportOnly(log[i].err)
\* two sessions opened on the branch that already existed, the second after
\* the first had published to it (its history holds the first one's commit),
\* and both published to it
C9_Witness ==
  \E s, t \in Sessions :
    /\ s # t /\ opened[s] = "ok" /\ opened[t] = "ok"
    /\ sourceBranch[s] = DefaultBranch /\ sourceBranch[t] = DefaultBranch
    /\ Len(log) = 2
    /\ log[1].kind = "Push" /\ log[1].sess = s /\ log[1].err = Nil
    /\ log[2].kind = "Push" /\ log[2].sess = t /\ log[2].err = Nil
    /\ Len(heads[t][head[t]]) = 3 /\ heads[t][head[t]][2].by = s

\* C10: a CreateMergeRequest call returns nil whenever the platform answers
\* its create request with "created" or with "already exists"; a call returns
\* an error only when no project matches, the transport fails or source and
\* target are one branch; and at most one open request exists per project,
\* source and target branch
C10_SubmitIdempotent ==
  /\ [][\A p \in Procs :
          (pc[p] = "create_mr" /\ pc'[p] = "idle" /\ resp'[p] \in {"created", "conflict"})
          => (Len(log') = Len(log) + 1 /\ log'[Len(log')].err = Nil)]_vars
  /\ [](\A i \in 1..Len(log) :
          log[i].err # Nil
          => \/ ErrorsIs(log[i].err, <<"unable to find any project for url">>)
             \/ ErrorsIs(log[i].err, ErrTransport)
             \/ log[i].err = Panic
             \/ log[i].file[1] = log[i].file[2])
  /\ [](\A m, n \in mrs :
          (m.pid = n.pid /\ m.source = n.source /\ m.target = n.target) => m = n)
\* two overlapping calls for one branch pair: one opened the request, the
\* other was answered "already exists", both returned nil
C10_Witness ==
  /\ Cardinality(mrs) = 1
  /\ \E p, q \in Procs :
        /\ p # q /\ pc[p] = "idle" /\ pc[q] = "idle"
        /\ resp[p] = "created" /\ resp[q] = "conflict"
        /\ op[p].file = op[q].file /\ op[p].path = op[q].path
  /\ Len(log) = 2 /\ log[1].err = Nil /\ log[2].err = Nil

\* C11: every create request that is answered by anything but "created" or
\* "already exists" - a platform rejection or a failure without an error
\* response, such as a transport failure - makes CreateMergeRequest return
\* a non-nil error to its caller (a return, not a panic)
C11_FailureReturnsError ==
  [][\A p \in Procs :
        (pc[p] = "create_mr" /\ pc'[p] = "idle" /\ resp'[p] \notin {"created", "conflict"})
        => /\ Len(log') = Len(log) + 1
           /\ log'[Len(log')].err # Nil
           /\ log'[Len(log')].err # Panic]_vars

\* the resolver conditions the poller is meant to wait out
NotReady(err) == err \in {ErrNotFound, ErrServiceUnavailable}
AllNotReady(calls) == \A i \in 1..Len(calls) : NotReady(calls[i].err)
Returned == poll.pc = "returned"

\* C12: the resolver is called again only after not-found or
\* service-unavailable failures; when a call succeeds after k such failures
\* the poller has returned that call's key with no error after exactly k+1
\* calls; when the first call fails with any other error the poller has
\* returned exactly that error, and no key, after exactly one call
C12_PollRetries ==
  LET calls == poll.calls
      n == Len(calls)
  IN /\ \A i \in 1..(n - 1) : NotReady(calls[i].err)
     /\ poll.inflight => AllNotReady(calls)
     /\ (n > 0 /\ calls[n].err = Nil)
          => /\ Returned /\ ~poll.inflight
             /\ poll.ret = [pk |-> calls[n].key, err |-> Nil]
     /\ (n > 0 /\ calls[1].err # Nil /\ ~NotReady(calls[1].err))
          => /\ Returned /\ ~poll.inflight /\ n = 1
             /\ poll.ret = [pk |-> NoKey, err |-> calls[1].err]
\* two not-ready failures of different kinds, a minute apart, then a key
C12_Witness ==
  /\ Returned /\ Len(poll.calls) = 3
  /\ poll.calls[1].err = ErrNotFound /\ poll.calls[2].err = ErrServiceUnavailable
  /\ poll.calls[2].at > poll.calls[1].at
  /\ poll.calls[3].err = Nil /\ poll.ret = [pk |-> poll.calls[3].key, err |-> Nil]

\* C13: a started poll always returns; no resolver call starts after the
\* timeout; a poll all of whose resolver calls failed not-ready returns an
\* error and no key, and unless the caller cancelled it returns only once
\* the timeout has elapsed
C13_PollTerminates ==
  /\ (poll.pc # "idle") ~> Returned
  /\ [](\A i \in 1..Len(poll.calls) : poll.calls[i].at <= Timeout(poll.site))
  /\ []((Returned /\ AllNotReady(poll.calls))
          => /\ poll.ret.err # Nil /\ poll.ret.pk = NoKey
             /\ ~poll.ctxDone => (poll.timedOut /\ poll.now >= Timeout(poll.site)))
\* the resolver kept failing not-ready until the three-minute timeout
C13_Witness ==
  /\ Returned /\ poll.site = "createSealedSecret" /\ ~poll.ctxDone
  /\ Len(poll.calls) >= 2 /\ AllNotReady(poll.calls)
  /\ poll.now = SealTimeout
  /\ poll.ret.err = Wrap("waiting for sealed-secret-controller to be deployed",
                         poll.calls[Len(poll.calls)].err)

\* C14: no step of NewGit, Push or DeleteFile changes the remote branch
\* that an open session has as its target branch, whatever source and target
\* branch the session was opened with
C14_TargetUntouched ==
  [][\A s \in Sessions :
        opened[s] = "ok" => remote'[targetBranch[s]] = remote[targetBranch[s]]]_vars

\* contents handed to a Push of path x on session s that has started
PublishedTo(s, x) ==
  {log[i].file : i \in {k \in 1..Len(log) : log[k].kind = "Push" /\ log[k].sess = s
                                             /\ log[k].path = x}}
  \cup {op[p].file : p \in {q \in Procs : op[q].kind = "Push" /\ op[q].sess = s
                                           /\ op[q].path = x /\ pc[q] # "idle"}}

\* C15: a GetFile that returns without error, also one that ran while a
\* Push of the same path was in progress, returns exactly the content of
\* one of the Push calls on that path: never an empty, truncated or partly
\* written content
C15_ReadAtomic ==
  \A i \in 1..Len(log) :
    (log[i].kind = "GetFile" /\ log[i].err = Nil)
      => log[i].file \in PublishedTo(log[i].sess, log[i].path)

\* C16: every step by which a Push or DeleteFile returns, with nil, with
\* any error (not-found included) or with the error of a cancelled fetch or
\* push, leaves the session mutex free; the mutex is only ever held by a
\* caller that is inside a call; and a caller waiting for the mutex
\* eventually gets through its call
C16_LockFreeOnReturn ==
  /\ [][\A p \in Procs : (InFlight(p) /\ pc'[p] = "idle") => mu'[op[p].sess] = 0]_vars
  /\ [](\A s \in Sessions : mu[s] # 0 => (InFlight(mu[s]) /\ op[mu[s]].sess = s))
  /\ \A p \in Procs : (pc[p] = "lock") ~> (pc[p] = "idle")
\* a caller that found the mutex held when it called is inside its call
\* after the first call returned with an error
C16_Witness ==
  /\ Len(log) = 1 /\ IsMutation(log[1]) /\ log[1].err # Nil
  /\ \E p \in Procs : InFlight(p) /\ op[p].conc /\ mu[op[p].sess] = p

\* the library calls of Push in the order of the source
PushOrder == <<"create", "write", "add", "commit", "fetch", "push">>
\* a library call failed: any error, except already-up-to-date from the fetch
StepFailed(e) == e.err # Nil /\ ~(e.step = "fetch" /\ e.err = NoErrAlreadyUpToDate)

\* C17: the library calls a Push has made are an initial part of create,
\* write, add, commit, fetch, push; none but the last of them failed; a Push
\* that has returned after a failed call returned that call's error wrapped
\* in that step's message, otherwise it made all six calls and returned nil;
\* and the local history changes only by a commit call that succeeded, the
\* remote only by a push call that succeeded
C17_StopsAtFirstFailure ==
  /\ [](op[1].kind = "Push" =>
         LET t == trace[1]
         IN /\ Len(t) <= Len(PushOrder)
            /\ \A i \in 1..Len(t) : t[i].step = PushOrder[i]
            /\ \A i \in 1..(Len(t) - 1) : ~StepFailed(t[i])
            /\ (pc[1] = "idle" /\ log # <<>>) =>
                 /\ t # <<>>
                 /\ IF StepFailed(Last(t))
                      THEN Last(log).err = <<StepMsg(Last(t).step)>> \o Last(t).err
                      ELSE Len(t) = Len(PushOrder) /\ Last(log).err = Nil)
  /\ [][/\ (pc[1] # "idle" /\ heads' # heads) =>
             (trace'[1] = Append(trace[1], [step |-> "commit", err |-> Nil]))
        /\ remote' # remote =>
             (trace'[1] = Append(trace[1], [step |-> "push", err |-> Nil]))]_vars
\* after a complete Push, a second Push failed at the stage step: nothing was
\* committed for it
C17_Witness ==
  /\ pc[1] = "idle" /\ Len(log) = 2 /\ log[1].err = Nil
  /\ log[2].err = <<"unable to add", "input/output error">>
  /\ Len(trace[1]) = 3
  /\ Len(heads[1][head[1]]) = 2

\* a returned Push or DeleteFile that got past its commit step
Committed(e) ==
  /\ IsMutation(e)
  /\ e.err # ErrNotExist
  /\ ~(e.err # Nil /\ e.err[1] = "unable to commit")
\* it committed and then failed at a remote step
FailedAfterCommit(e) == Committed(e) /\ e.err # Nil
CommittedCalls == {i \in 1..Len(log) : Committed(log[i])}
\* the commit messages of the calls that committed, in the order of the calls
RECURSIVE CommitMsgs(_)
CommitMsgs(l) ==
  IF l = <<>> THEN <<>>
  ELSE LET e == l[1]
           m == createCommitMsg(IF e.kind = "Push" THEN "created" ELSE "deleted", e.path)
       IN (IF Committed(e) THEN <<m>> ELSE <<>>) \o CommitMsgs(Tail(l))

\* C18: no step removes or replaces a commit of a local branch; between
\* calls the local source branch holds, after the commit it was created
\* from, one commit per call that got past its commit step, failed or not, in
\* the order of the calls; and when the last call is a Push that returned
\* nil, the remote source branch holds exactly these commits
C18_LocalCommitsKept ==
  /\ [][\A s \in Sessions : opened[s] = "ok" =>
           \A b \in Branches : IsPrefix(heads[s][b], heads'[s][b])]_vars
  /\ []((opened[1] = "ok" /\ pc[1] = "idle") =>
          LET h == heads[1][sourceBranch[1]]
          IN /\ Len(h) = 1 + Cardinality(CommittedCalls)
             /\ [i \in 1..(Len(h) - 1) |-> h[i + 1].msg] = CommitMsgs(log)
             /\ (log # <<>> /\ Last(log).kind = "Push" /\ Last(log).err = Nil)
                  => remote[sourceBranch[1]] = h)
\* a Push whose push failed, a DeleteFile of that path whose push failed,
\* then a Push that succeeded: the remote branch holds all three commits
C18_Witness ==
  /\ opened[1] = "ok" /\ pc[1] = "idle" /\ Len(log) = 3
  /\ log[1].kind = "Push" /\ log[1].err = <<"unable to push", "transport error">>
  /\ log[2].kind = "DeleteFile" /\ log[2].err = ErrTransport
  /\ FailedAfterCommit(log[1]) /\ FailedAfterCommit(log[2])
  /\ log[3].kind = "Push" /\ log[3].err = Nil
  /\ Len(remote[sourceBranch[1]]) = 4
  /\ remote[sourceBranch[1]][2].msg = createCommitMsg("created", log[1].path)
  /\ remote[sourceBranch[1]][3].msg = createCommitMsg("deleted", log[2].path)

\* the library calls of DeleteFile in the order of the source
DeleteOrder == <<"remove", "commit", "push", "fetch">>
OrderOf(kind) == IF kind = "Push" THEN PushOrder ELSE DeleteOrder
IsRemoteStep(step) == step \in {"fetch", "push"}

\* C19: the calls a Push has made follow the order create, write, add,
\* commit, fetch, push
\* and those of a DeleteFile the order remove, commit, push, fetch; a fetch
\* or push is made only after the call's commit succeeded; the push of Push
\* is forced (it is never rejected as non-fast-forward, and when it succeeds
\* the remote branch is the local one, whatever it held), the push of
\* DeleteFile is not (it never takes a commit off a remote branch)
C19_RemoteStepOrder ==
  /\ [](\A p \in Procs : IsMutation(op[p]) =>
          LET t == trace[p]
              order == OrderOf(op[p].kind)
          IN /\ Len(t) <= Len(order)
             /\ \A i \in 1..Len(t) : t[i].step = order[i]
             /\ \A i \in 1..Len(t) :
                  IsRemoteStep(t[i].step)
                    => \E j \in 1..(i - 1) : t[j].step = "commit" /\ t[j].err = Nil)
  /\ [](\A i \in 1..Len(log) :
          log[i].kind = "Push" => ~ErrorsIs(log[i].err, ErrNonFastForward))
  /\ [][\A p \in Procs :
          /\ (pc[p] = "push" /\ pc'[p] = "idle" /\ Last(log').err = Nil)
               => remote'[head[op[p].sess]] = heads[op[p].sess][head[op[p].sess]]
          /\ pc[p] = "dpush"
               => \A b \in Branches : IsPrefix(remote[b], remote'[b])]_vars
\* two sessions published in turn, the second overwriting the first one's
\* commit on the remote; the first session's DeleteFile then committed and had
\* its push rejected, and made no fetch
C19_Witness ==
  /\ Len(log) = 3 /\ pc[1] = "idle"
  /\ log[1].kind = "Push" /\ log[1].err = Nil
  /\ log[2].kind = "Push" /\ log[2].err = Nil /\ log[2].sess # log[1].sess
  /\ log[3].kind = "DeleteFile" /\ log[3].sess = log[1].sess
  /\ log[3].err = ErrNonFastForward
  /\ remote[DefaultBranch] = heads[log[2].sess][DefaultBranch]
  /\ Len(remote[DefaultBranch]) = 2
  /\ [i \in 1..3 |-> trace[1][i].step] = <<"remove", "commit", "push">>

\* what NewGit hands to configureProvider on success: the clone with the
\* source branch as a local branch that HEAD points to
UsableSession(s) ==
  /\ rrefs[s][DefaultBranch] # <<>>
  /\ head[s] = sourceBranch[s]
  /\ heads[s][sourceBranch[s]] # <<>>
\* NewGit returned nil: there is no repository, tree or lock for the session
\* and no call was ever made on it
NoSession(s) ==
  /\ heads[s] = NoRefs /\ rrefs[s] = NoRefs
  /\ fs[s] = EmptyTree /\ index[s] = EmptyTree /\ mu[s] = 0
  /\ \A p \in Procs : op[p].sess # s
  /\ \A i \in 1..Len(log) : log[i].sess # s

\* C20: NewGit ends in one of three ways and stays there: a session with
\* the clone done and the source branch checked out, or - when the clone
\* failed, or the checkout failed with an error other than "already exists" -
\* an error without any session, on which nothing can be called
C20_OpenAllOrNothing ==
  /\ [](\A s \in Sessions :
          /\ opened[s] \in {"no", "ok", "clone failed", "branch failed"}
          /\ opened[s] = "ok" => UsableSession(s)
          /\ opened[s] \in {"no", "clone failed", "branch failed"} => NoSession(s))
  /\ [][\A s \in Sessions : opened[s] # "no" => opened'[s] = opened[s]]_vars
\* the first NewGit failed at the checkout, the second returned a session on
\* a new branch that a Push then went through
C20_Witness ==
  /\ opened[1] = "branch failed" /\ NoSession(1)
  /\ opened[2] = "ok" /\ sourceBranch[2] # DefaultBranch
  /\ Len(log) = 1 /\ log[1].sess = 2 /\ log[1].err = Nil

\* the number of calls of one library step in a trace
Attempts(t, step) == Cardinality({i \in 1..Len(t) : t[i].step = step})

\* C21: a Push or DeleteFile calls fetch at most once and push at most
\* once, and the step in which a fetch or push fails (already-up-to-date of
\* the fetch aside) is the step in which the call returns, with that error
C21_NoRemoteRetry ==
  /\ [](\A p \in Procs : IsMutation(op[p]) =>
          /\ Attempts(trace[p], "fetch") <= 1
          /\ Attempts(trace[p], "push") <= 1)
  /\ [][\A p \in Procs :
          (Len(trace'[p]) = Len(trace[p]) + 1
           /\ IsRemoteStep(Last(trace'[p]).step) /\ StepFailed(Last(trace'[p])))
          => /\ pc'[p] = "idle" /\ Len(log') = Len(log) + 1
             /\ ErrorsIs(Last(log').err, Last(trace'[p]).err)]_vars
\* a Push returned at its failed fetch, then a DeleteFile at its failed push
C21_Witness ==
  /\ pc[1] = "idle" /\ Len(log) = 2
  /\ log[1].kind = "Push" /\ log[1].err = <<"unable to fetch", "transport error">>
  /\ log[2].kind = "DeleteFile" /\ log[2].err = ErrTransport
  /\ Len(trace[1]) = 3 /\ trace[1][3] = [step |-> "push", err |-> ErrTransport]

\* ------------------------------------------- sealedsecret_in_git resource
\* The provider runs one resource operation at a time through caller 1 and
\* session 1. res.at is the number of calls started when the operation
\* entered its stage: the stage's call is made once and its result is the
\* last entry of the log.
ResFrame == UNCHANGED <<gitVars, pc, op, log, started, mrVars, poll, trace>>

\* the calls one resource operation makes at most: Push or DeleteFile,
\* CreateMergeRequest, GetFile
MaxResCalls == 3 * MaxResOps

\* errors of the steps of the handlers that are not calls of the session
ErrSeal == <<"unable to seal secret">>
ErrUnmarshal == <<"yaml: unmarshal error">>
ErrResolver == <<"unable to resolve public key">>

\* configureProvider after NewGit returned: IsGitlabRepo and the URL. id is
\* the resource ID in the Terraform state the run starts from
ResConfigure(gitlab, url, id) ==
  /\ res.stage = "unconfigured"
  /\ opened[1] = "ok"
  /\ res' = [res EXCEPT !.stage = "idle", !.isGitlab = gitlab, !.url = url, !.id = id]
  /\ ResFrame

\* if provider.IsGitlabRepo
WantsMergeRequestAlways(r) == TRUE
WantsMergeRequest(r) == r.isGitlab

\* the stage's call has not been made / has returned
StageFresh == started = res.at /\ pc[1] = "idle"
StageDone == started = res.at + 1 /\ pc[1] = "idle"

\* the handler returns diag.FromErr(err)
ResReturn(err) == res' = [res EXCEPT !.stage = "idle", !.diag = err]
\* the handler moves on to its next call
ResStage(stage) == res' = [res EXCEPT !.stage = stage, !.at = started]

\* resourceCreateInGit / resourceUpdateInGit up to the call of Push:
\* createSealedSecret returns the manifest or an error
ResCreateBegin(kind, path, file, sealed) ==
  /\ res.stage = "idle"
  /\ res.ops < MaxResOps
  /\ IF kind = "create" THEN res.id = "" ELSE res.id # ""
  /\ res' = [res EXCEPT !.kind = kind, !.path = path, !.file = file, !.ops = @ + 1,
                        !.at = started,
                        !.stage = IF sealed THEN "push" ELSE "idle",
                        !.diag = IF sealed THEN Nil ELSE ErrSeal]
  /\ ResFrame

\* provider.Git.Push(ctx, sealedSecret, filePath)
ResPushCall ==
  /\ res.stage = "push" /\ StageFresh
  /\ Call(1, 1, "Push", res.path, res.file, MaxResCalls)

\* Push returned: fail on its error, then CreateMergeRequest in gitlab mode,
\* else d.SetId(filePath) and the read
ResPushDone ==
  /\ res.stage = "push" /\ StageDone
  /\ LET err == Last(log).err
     IN IF err # Nil THEN ResReturn(err)
        ELSE IF WantsMergeRequest(res) THEN ResStage("submit")
        ELSE res' = [res EXCEPT !.stage = "read", !.at = started, !.id = res.path]
  /\ ResFrame

\* Git.CreateMergeRequest: gitlab.CreateMergeRequest with the session's URL
\* and its source and target branch
GitCreateMergeRequest(p, s, url, max) ==
  /\ pc[p] = "idle"
  /\ started < max
  /\ opened[s] = "ok"
  /\ op' = [op EXCEPT ![p] = [kind |-> "CreateMergeRequest", sess |-> 0, path |-> url,
                               file |-> <<sourceBranch[s], targetBranch[s]>>,
                               conc |-> FALSE]]
  /\ pc' = [pc EXCEPT ![p] = "project"]
  /\ resp' = [resp EXCEPT ![p] = "none"]
  /\ started' = started + 1
  /\ UNCHANGED <<gitVars, log, mrs, poll, trace, res>>

ResSubmitCall ==
  /\ res.stage = "submit" /\ StageFresh
  /\ GitCreateMergeRequest(1, 1, res.url, MaxResCalls)

\* CreateMergeRequest returned. Create and update fail on its error, else
\* d.SetId(filePath) and the read; delete returns diag.FromErr of it, and
\* the SDK clears the ID of a resource whose delete returned no error
ResSubmitDone ==
  /\ res.stage = "submit" /\ StageDone
  /\ LET err == Last(log).err
     IN IF err # Nil THEN ResReturn(err)
        ELSE IF res.kind = "delete"
          THEN res' = [res EXCEPT !.stage = "idle", !.diag = Nil, !.id = ""]
        ELSE res' = [res EXCEPT !.stage = "read", !.at = started, !.id = res.path]
  /\ ResFrame

\* resourceDeleteInGit up to the call of DeleteFile with d.Get(filepath)
ResDeleteBegin ==
  /\ res.stage = "idle"
  /\ res.ops < MaxResOps
  /\ res.id # ""
  /\ res' = [res EXCEPT !.kind = "delete", !.path = res.id, !.file = <<>>,
                        !.ops = @ + 1, !.at = started, !.stage = "delete", !.diag = Nil]
  /\ ResFrame

ResDeleteCall ==
  /\ res.stage = "delete" /\ StageFresh
  /\ Call(1, 1, "DeleteFile", res.path, <<>>, MaxResCalls)

\* err != nil && !errors.Is(err, os.ErrNotExist) fails the delete
DeleteFailsAlways(err) == err # Nil
DeleteFails(err) == err # Nil /\ ~ErrorsIs(err, ErrNotExist)

\* DeleteFile returned
ResDeleteDone ==
  /\ res.stage = "delete" /\ StageDone
  /\ LET err == Last(log).err
     IN IF DeleteFails(err) THEN ResReturn(err)
        ELSE IF WantsMergeRequest(res) THEN ResStage("submit")
        ELSE res' = [res EXCEPT !.stage = "idle", !.diag = Nil, !.id = ""]
  /\ ResFrame

\* resourceReadInGit as a refresh, up to the call of GetFile with d.Id()
ResReadBegin ==
  /\ res.stage = "idle"
  /\ res.ops < MaxResOps
  /\ res.id # ""
  /\ res' = [res EXCEPT !.kind = "read", !.path = res.id, !.file = <<>>,
                        !.ops = @ + 1, !.at = started, !.stage = "read", !.diag = Nil]
  /\ ResFrame

ResReadCall ==
  /\ res.stage = "read" /\ StageFresh
  /\ Call(1, 1, "GetFile", res.id, <<>>, MaxResCalls)

\* the rest of resourceReadInGit after GetFile returned the file: the
\* manifest is parsed, the public key resolved and its hash compared with
\* the recorded one
ReadTails == {"ok", "unmarshal", "resolver", "key changed"}
ReadTail(r, tail) ==
  IF tail = "unmarshal" THEN [r EXCEPT !.stage = "idle", !.diag = ErrUnmarshal]
  ELSE IF tail = "resolver" THEN [r EXCEPT !.stage = "idle", !.diag = ErrResolver]
  ELSE IF tail = "key changed" THEN [r EXCEPT !.stage = "idle", !.diag = Nil, !.id = ""]
  ELSE [r EXCEPT !.stage = "idle", !.diag = Nil]

\* errors.Is(err, os.ErrNotExist) clears the ID and returns nil
ReadNotFoundNever(err) == FALSE
ReadNotFound(err) == ErrorsIs(err, ErrNotExist)

\* GetFile returned
ResReadDone(tail) ==
  /\ res.stage = "read" /\ StageDone
  /\ LET err == Last(log).err
     IN IF ReadNotFound(err)
          THEN res' = [res EXCEPT !.stage = "idle", !.diag = Nil, !.id = ""]
        ELSE IF err # Nil THEN ResReturn(err)
        ELSE res' = ReadTail(res, tail)
  /\ ResFrame

\* g.fs.Open or io.ReadAll fails for a reason other than an absent path
ErrRead == <<"read error">>
GetFileFails(p) ==
  /\ pc[p] \in {"open", "readall"}
  /\ Return(p, ErrRead, <<>>)
  /\ UNCHANGED <<gitVars, mrVars, poll, trace, res>>

\* the provider configured once, then resource operations one at a time
NextRes ==
  \/ \E src \in Branches : NewGit(1, src, DefaultBranch)
  \/ \E gitlab \in BOOLEAN, url \in Urls, id \in {"", "a"} : ResConfigure(gitlab, url, id)
  \/ \E kind \in {"create", "update"}, path \in Paths, sealed \in BOOLEAN :
        ResCreateBegin(kind, path, <<7>>, sealed)
  \/ ResPushCall
  \/ ResPushDone
  \/ ResSubmitCall
  \/ ResSubmitDone
  \/ ResDeleteBegin
  \/ ResDeleteCall
  \/ ResDeleteDone
  \/ ResReadBegin
  \/ ResReadCall
  \/ \E tail \in ReadTails : ResReadDone(tail)
  \/ Step(1)
  \/ GetFileFails(1)
  \/ SubmitProject(1)
  \/ SubmitCreate(1)

SpecRes == Init /\ [][NextRes]_vars

\* ---------------------------------------------------------------- C22
\* a call of the session after which the handlers go on to CreateMergeRequest
PublishedOrDeleted(e) ==
  \/ e.kind = "Push" /\ e.err = Nil
  \/ e.kind = "DeleteFile" /\ (e.err = Nil \/ ErrorsIs(e.err, ErrNotExist))
\* a Push or DeleteFile whose error the handler returned
Propagated(e) == e.kind \in {"Push", "DeleteFile"} /\ ~PublishedOrDeleted(e)
\* CreateMergeRequest has been invoked and has not returned
SubmitInFlight == pc[1] \in {"project", "create_mr"}

\* C22: in gitlab mode CreateMergeRequest is invoked once after each Push
\* of a create or update that returned nil and after each DeleteFile of a
\* delete that succeeded, and only after that call has returned; it is
\* never invoked after a Push or DeleteFile whose error was propagated, and
\* never when gitlab mode is off
C22_SubmitAfterSuccess ==
  /\ \A i \in 1..Len(log) :
       log[i].kind = "CreateMergeRequest" =>
         /\ res.isGitlab
         /\ i > 1 /\ PublishedOrDeleted(log[i - 1])
  /\ SubmitInFlight =>
       /\ res.isGitlab
       /\ log # <<>> /\ PublishedOrDeleted(Last(log))
  /\ \A i \in 1..Len(log) :
       (res.isGitlab /\ (log[i].kind = "Push" \/ log[i].kind = "DeleteFile")
          /\ log[i].err = Nil) =>
         IF i < Len(log) THEN log[i + 1].kind = "CreateMergeRequest"
         ELSE SubmitInFlight \/ (res.stage = "submit" /\ StageFresh)
                \/ (res.stage \in {"push", "delete"} /\ StageDone)
  /\ \A i \in 1..Len(log) :
       Propagated(log[i]) =>
         /\ i < Len(log) => log[i + 1].kind # "CreateMergeRequest"
         /\ i = Len(log) => ~SubmitInFlight /\ res.stage # "submit"

\* a create published and submitted, then a delete deleted and submitted
C22_Witness ==
  /\ res.isGitlab /\ res.stage = "idle" /\ res.ops = 2
  /\ Len(log) = 5
  /\ log[1].kind = "Push" /\ log[1].err = Nil
  /\ log[2].kind = "CreateMergeRequest"
  /\ log[3].kind = "GetFile"
  /\ log[4].kind = "DeleteFile" /\ log[4].err = Nil
  /\ log[5].kind = "CreateMergeRequest" /\ log[5].err = Nil

\* ---------------------------------------------------------------- C23
\* the handler leaves the stage in which it waited for DeleteFile / GetFile
LeavesStage(stage) == res.stage = stage /\ res' # res
\* the operation has ended and failed with err
FailsWith(r, err) == r.stage = "idle" /\ r.diag = err

\* C23: a delete whose DeleteFile returned os.ErrNotExist does not fail for
\* that reason, a read whose GetFile returned os.ErrNotExist clears the ID
\* and returns no error, and every other error of DeleteFile or GetFile
\* fails the operation with that error
C23_NotFoundIsAbsent ==
  /\ [](res.stage = "idle" /\ res.kind \in {"delete", "read"}
          => ~ErrorsIs(res.diag, ErrNotExist))
  /\ [][LeavesStage("delete") =>
          LET err == Last(log).err
          IN IF err = Nil \/ ErrorsIs(err, ErrNotExist)
               THEN \/ res'.stage = "submit"
                    \/ res'.stage = "idle" /\ res'.diag = Nil /\ res'.id = ""
               ELSE FailsWith(res', err) /\ res'.id = res.id]_vars
  /\ [][(LeavesStage("read") /\ Last(log).err # Nil) =>
          LET err == Last(log).err
          IN IF ErrorsIs(err, ErrNotExist)
               THEN res'.stage = "idle" /\ res'.diag = Nil /\ res'.id = ""
               ELSE FailsWith(res', err) /\ res'.id = res.id]_vars

\* a delete of a recorded resource whose file is absent, in gitlab mode: it
\* went on to the merge request and succeeded
C23_Witness ==
  /\ res.kind = "delete" /\ res.stage = "idle" /\ res.ops = 1 /\ res.isGitlab
  /\ Len(log) = 2
  /\ log[1].kind = "DeleteFile" /\ log[1].err = ErrNotExist
  /\ log[2].kind = "CreateMergeRequest" /\ log[2].err = Nil
  /\ res.diag = Nil /\ res.id = ""

\* ---------------------------------------------------------------- C24
\* the projects whose web URL is exactly url
ExactProjects(url) == {pr \in Projects : pr.webURL = url}

\* C24: CreateMergeRequest uses the listed project whose web URL equals the
\* configured URL. When no project's web URL equals it, the call returns an
\* error and never reaches the create request, also when the search on the
\* last path segment hits other projects; every merge request is opened on
\* the project of the exact URL
C24_ExactProjectMatch ==
  /\ \A p \in Procs : pc[p] = "create_mr" => ExactProjects(op[p].path) # {}
  /\ \A i \in 1..Len(log) :
       (log[i].kind = "CreateMergeRequest" /\ ExactProjects(log[i].path) = {}) =>
          log[i].err \in {<<"unable to find any project for url">>,
                          Wrap("unable to get projects", ErrTransport)}
  /\ \A m \in mrs :
       \E i \in 1..Len(log) :
          /\ log[i].kind = "CreateMergeRequest" /\ log[i].err = Nil
          /\ \E pr \in ExactProjects(log[i].path) : pr.id = m.pid

\* a call with a URL whose last segment hits projects of other groups
\* failed, and a call with the URL of a listed project opened a request
C24_Witness ==
  /\ Len(log) = 2 /\ mrs # {}
  /\ log[1].path = <<"gitlab", "nobody", "repo">>
  /\ ListProjects(createListProjectsOptions(log[1].path)) # {}
  /\ log[1].err = <<"unable to find any project for url">>
  /\ log[2].path = <<"gitlab", "grp", "repo">> /\ log[2].err = Nil

\* ---------------------------------------------------------------- C25
\* C25: once NewGit has returned a session, its HEAD is the source branch in
\* every state; no step moves HEAD, and the commits of Push and DeleteFile
\* are appended to the source branch while every other local branch keeps
\* its history
C25_OnSourceBranch ==
  /\ [](\A s \in Sessions : opened[s] = "ok" => head[s] = sourceBranch[s])
  /\ [][\A s \in Sessions : opened[s] = "ok" =>
          /\ head'[s] = head[s]
          /\ IsPrefix(heads[s][sourceBranch[s]], heads'[s][sourceBranch[s]])
          /\ \A b \in Branches \ {sourceBranch[s]} : heads'[s][b] = heads[s][b]]_vars

\* a session on the feature branch after a Push and a DeleteFile: both
\* commits are on feature, main is where the clone left it
C25_Witness ==
  /\ opened[1] = "ok" /\ sourceBranch[1] = "feature" /\ head[1] = "feature"
  /\ pc[1] = "idle"
  /\ \E i, j \in 1..Len(log) :
       /\ i < j
       /\ log[i].kind = "Push" /\ log[i].err = Nil
       /\ log[j].kind = "DeleteFile" /\ log[j].err = Nil
  /\ Len(heads[1]["feature"]) = Len(heads[1]["main"]) + 2

\* ---------------------------------------------------------------- C26
\* caller p's call makes its commit step in this step
CommitStep(p) ==
  /\ Len(trace'[p]) = Len(trace[p]) + 1
  /\ Last(trace'[p]).step = "commit"
\* the message the commit of caller p's call has to carry
ExpectedMsg(p) ==
  <<"[SEALEDSECRET-PROVIDER]", IF op[p].kind = "Push" THEN "created" ELSE "deleted",
    "-->", op[p].path>>

\* C26: the local history only grows, by one commit at the commit step of
\* each Push and DeleteFile: the commit is appended to the branch HEAD
\* points to and its message is "[SEALEDSECRET-PROVIDER] created --> <path>"
\* for Push and "[SEALEDSECRET-PROVIDER] deleted --> <path>" for DeleteFile;
\* no other step changes a local branch, a call commits at most once, and a
\* DeleteFile that returned os.ErrNotExist did not commit
C26_OneCommitPerCall ==
  /\ [][\A p \in Procs : CommitStep(p) =>
          LET s == op[p].sess
              h == heads[s][head[s]]
          IN /\ heads'[s][head[s]] = Append(h, Last(heads'[s][head[s]]))
             /\ Last(heads'[s][head[s]]).msg = ExpectedMsg(p)
             /\ \A t \in Sessions, b \in Branches :
                  (t # s \/ b # head[s]) => heads'[t][b] = heads[t][b]]_vars
  /\ [][(\A p \in Procs : ~CommitStep(p)) =>
          \A s \in Sessions : opened[s] = "ok" => heads'[s] = heads[s]]_vars
  /\ [](\A p \in Procs : Attempts(trace[p], "commit") <= 1)
  /\ [](\A p \in Procs :
          (pc[p] = "idle" /\ op[p].kind = "DeleteFile" /\ log # <<>>
             /\ Last(log).kind = "DeleteFile" /\ Last(log).err = ErrNotExist)
          => Attempts(trace[p], "commit") = 0)

\* a Push of a new path, a Push of the same path again and a DeleteFile of
\* it: three commits after the one the branch was created from
C26_Witness ==
  /\ opened[1] = "ok" /\ opened[2] = "no" /\ pc[1] = "idle" /\ Len(log) = 3
  /\ log[1].kind = "Push" /\ log[2].kind = "Push" /\ log[3].kind = "DeleteFile"
  /\ \A i \in 1..3 : log[i].err = Nil /\ log[i].path = "a"
  /\ Len(heads[1]["main"]) = 4
  /\ heads[1]["main"][3].msg = <<"[SEALEDSECRET-PROVIDER]", "created", "-->", "a">>
  /\ heads[1]["main"][4].msg = <<"[SEALEDSECRET-PROVIDER]", "deleted", "-->", "a">>

\* ---------------------------------------------------------------- C27
\* caller p's fetch reports that there was nothing to fetch in this step
FetchUpToDate(p) ==
  /\ Len(trace'[p]) = Len(trace[p]) + 1
  /\ Last(trace'[p]) = [step |-> "fetch", err |-> NoErrAlreadyUpToDate]

\* C27: a fetch that returns NoErrAlreadyUpToDate is a success: Push goes on
\* to its push step, DeleteFile returns nil, and no Push or DeleteFile
\* returns an error that is NoErrAlreadyUpToDate
C27_UpToDateIsSuccess ==
  /\ [][\A p \in Procs : FetchUpToDate(p) =>
          IF op[p].kind = "Push"
            THEN pc'[p] = "push" /\ log' = log
            ELSE /\ pc'[p] = "idle"
                 /\ log' = Append(log, Last(log'))
                 /\ Last(log').kind = "DeleteFile" /\ Last(log').err = Nil]_vars
  /\ [](\A i \in 1..Len(log) :
          IsMutation(log[i]) => ~ErrorsIs(log[i].err, NoErrAlreadyUpToDate))

\* the only session published and then deleted; nothing else moved the
\* remote, so both fetches had nothing to fetch
C27_Witness ==
  /\ opened[1] = "ok" /\ opened[2] = "no" /\ pc[1] = "idle" /\ Len(log) = 2
  /\ log[1].kind = "Push" /\ log[1].err = Nil
  /\ log[2].kind = "DeleteFile" /\ log[2].err = Nil
  /\ rrefs[1] = remote
  /\ Last(trace[1]) = [step |-> "fetch", err |-> NoErrAlreadyUpToDate]

\* ---------------------------------------------------------------- C28
\* the remote source branch holds a commit that is not in the history of
\* session s's local source branch
Diverged(s) == ~IsPrefix(remote[sourceBranch[s]], heads[s][sourceBranch[s]])

\* C28: when DeleteFile reaches its push while the remote source branch has
\* diverged from the local one, the push is refused: DeleteFile returns the
\* error of that one push - the non-fast-forward rejection unless the
\* transport failed first - the remote is left as it was, and the call has
\* made no fetch
C28_DivergedDeleteRejected ==
  [][\A p \in Procs :
       (pc[p] = "dpush" /\ Diverged(op[p].sess) /\ pc'[p] # pc[p]) =>
          /\ pc'[p] = "idle" /\ log' = Append(log, Last(log'))
          /\ Last(log').kind = "DeleteFile"
          /\ Last(log').err \in {ErrNonFastForward, ErrTransport}
          /\ Last(log').err = Last(trace'[p]).err
          /\ remote' = remote
          /\ Attempts(trace'[p], "push") = 1
          /\ Attempts(trace'[p], "fetch") = 0]_vars

\* the second session published on top of the first one's commit; the first
\* session's DeleteFile was then rejected and the remote still holds the
\* second session's file
C28_Witness ==
  /\ Len(log) = 3 /\ pc[1] = "idle"
  /\ log[3].kind = "DeleteFile" /\ log[3].err = ErrNonFastForward
  /\ Diverged(log[3].sess)
  /\ Len(remote[DefaultBranch]) = 3
  /\ Last(remote[DefaultBranch]).by # log[3].sess
  /\ Exists(Tree(remote[DefaultBranch])["a"])
  /\ Attempts(trace[1], "push") = 1 /\ Attempts(trace[1], "fetch") = 0

\* ---------------------------------------------------------------- C29
\* caller p's Push returns nil in this step
PushSucceeds(p) ==
  /\ pc[p] = "push" /\ pc'[p] = "idle"
  /\ Last(log').kind = "Push" /\ Last(log').err = Nil

\* C29: at the return of every Push that returns nil, the remote source
\* branch is the session's local source branch, whatever the remote branch
\* held before the push, and a clone of the source branch has the tree the
\* session committed
C29_PushWins ==
  [][\A p \in Procs : PushSucceeds(p) =>
       LET s == op[p].sess
           b == sourceBranch[s]
       IN /\ remote'[b] = heads'[s][b]
          /\ Tree(remote'[b]) = index'[s]
          /\ Tree(remote'[b])[op[p].path] = File(op[p].file)]_vars

\* two sessions cloned the same state and published one after the other:
\* the second push replaced the first session's commit on the remote
C29_Witness ==
  /\ Len(log) = 2 /\ pc[1] = "idle"
  /\ log[1].kind = "Push" /\ log[1].err = Nil
  /\ log[2].kind = "Push" /\ log[2].err = Nil /\ log[2].sess # log[1].sess
  /\ sourceBranch[log[1].sess] = sourceBranch[log[2].sess]
  /\ LET b == sourceBranch[log[2].sess]
     IN /\ remote[b] = heads[log[2].sess][b]
        /\ ~IsPrefix(heads[log[1].sess][b], remote[b])
        /\ cloneBranch(log[2].sess) = index[log[2].sess]

\* ---------------------------------------------------------------- C30
\* NewGit returns session s in this step, on a source branch that is not the
\* default branch and that the remote already has
OpensExistingBranch(s) ==
  /\ opened[s] = "no" /\ opened'[s] = "ok"
  /\ sourceBranch'[s] # DefaultBranch
  /\ remote[sourceBranch'[s]] # <<>>

\* C30: a session opened on a source branch that exists on the remote and is
\* not the default branch has that branch's content as its working tree:
\* GetFile of every path the branch holds returns the published content
C30_OpenSeesBranch ==
  [][\A s \in Sessions : OpensExistingBranch(s) =>
       \A x \in Paths :
          Exists(Tree(remote[sourceBranch'[s]])[x])
            => fs'[s][x] = Tree(remote[sourceBranch'[s]])[x]]_vars

\* ---------------------------------------------------------------- C31
\* successive provider runs, one writer at a time: each run opens its own
\* session on the remote and publishes through it, and a session is no
\* longer used once the next one has been opened
NextSucc ==
  \/ \E s \in Sessions, src \in Branches :
        pc[1] = "idle" /\ NewGit(s, src, DefaultBranch)
  \/ \E s \in Sessions, path \in Paths :
        /\ \A t \in Sessions : t > s => opened[t] = "no"
        /\ Call(1, s, "Push", path, <<7>>, MaxSuccOps)
  \/ PushSteps(1)

SpecSucc == Init /\ [][NextSucc]_vars

\* C31: when a session has just published, the remote source branch still
\* holds every file that an earlier session published to that branch: the
\* content of the last successful Push of each path
C31_LaterSessionKeepsFiles ==
  \A i \in 1..Len(log) :
    LET e == log[i]
        l == Last(log)
    IN (/\ pc[1] = "idle"
        /\ e.kind = "Push" /\ e.err = Nil
        /\ l.kind = "Push" /\ l.err = Nil /\ l.sess > e.sess
        /\ sourceBranch[l.sess] = sourceBranch[e.sess]
        /\ \A k \in (i + 1)..Len(log) : log[k].path # e.path)
       => Tree(remote[sourceBranch[e.sess]])[e.path] = File(e.file)
====
